---- MODULE Spec2Model ----
(***************************************************************************)
(* Model of src/app.py: the Streamlit dashboard script of the repository.  *)
(*                                                                         *)
(* The script is re-executed top to bottom on every interaction (a "run"). *)
(* Each run calls load_data() (memoized by st.cache_data), then renders    *)
(* the map tab and the analytics tab.                                      *)
(*                                                                         *)
(* Conventions                                                             *)
(*   - text is a TLA+ string; Len, SubSeq and \o act on it character-wise. *)
(*     A character is one of the 128 ASCII characters: TLC holds any other *)
(*     character as several bytes, so text outside ASCII (where str.strip  *)
(*     removes further spaces and str.upper maps further letters, some to  *)
(*     two characters) is outside the domain of Strip and UpperStr.        *)
(*   - a number is a decimal fraction [n, d]: the value n/d with d the     *)
(*     least power of ten that makes n an integer; d = 0 marks the two     *)
(*     infinities. Number texts stay within 9 significant digits, where    *)
(*     float64 holds distinct decimals apart and orders them as written;   *)
(*     the rounding of float64 arithmetic is not modelled.                 *)
(*   - a DataFrame cell is NaN (<<>>) or <<v>> with v a text or a number.  *)
(*   - the CSV file is modelled after tokenisation: a header (sequence of  *)
(*     raw column names) and rows (sequences of raw cell texts).           *)
(***************************************************************************)
EXTENDS Integers, Sequences, FiniteSets, TLC

VARIABLES
    file,                  \* the CSV file on disk
    cache,                 \* st.cache_data's entry for load_data()
    pc,                    \* position of the current script run
    df,                    \* the script's global df (line 140)
    shown,                 \* elements displayed by the current run
    year_range,            \* script global, line 158
    attack_types,          \* script global, line 165
    financial_loss_range,  \* script global, line 172
    mapData,               \* the frame handed to the map figure
    chartData,             \* the frame handed to the analytic charts
    bodyRan,               \* did the last load_data call execute its body
    calls,                 \* history: "none", "first" or "later" call
    firstRet,              \* history: what the first call returned
    fileChanged            \* history: has the file changed since start

vars == <<file, cache, pc, df, shown, year_range, attack_types,
          financial_loss_range, mapData, chartData, bodyRan, calls,
          firstRet, fileChanged>>

-----------------------------------------------------------------------------
(* Values *)

NaN == <<>>

Val(v) == <<v>>

Range(s) == {s[i] : i \in DOMAIN s}

-----------------------------------------------------------------------------
(* Numbers *)

RECURSIVE Dec(_, _)
\* The number n/d, d a power of ten, in its form with the least such d.
Dec(n, d) ==
    IF d > 1 /\ n % 10 = 0
    THEN Dec(n \div 10, d \div 10)
    ELSE [n |-> n, d |-> d]

Zero == Dec(0, 1)

One == Dec(1, 1)

PosInf == [n |-> 1, d |-> 0]

NegInf == [n |-> -1, d |-> 0]

IsFinite(x) == x.d # 0

\* x <= y on floats (no NaN among them).
Leq(x, y) ==
    IF x.d = 0 \/ y.d = 0
    THEN x = NegInf \/ y = PosInf
    ELSE x.n * y.d <= y.n * x.d

Lt(x, y) == ~Leq(y, x)

Plus(x, y) == Dec(x.n * y.d + y.n * x.d, x.d * y.d)

Times(k, x) == Dec(k * x.n, x.d)

\* Series.min() and Series.max() of a column without missing value.
Min(S) == CHOOSE x \in S : \A y \in S : Leq(x, y)

Max(S) == CHOOSE x \in S : \A y \in S : Leq(y, x)

\* astype(int) on a finite number: the fraction is cut off, towards zero.
AsInt(x) ==
    IF x.n >= 0 THEN Dec(x.n \div x.d, 1) ELSE Dec(0 - ((0 - x.n) \div x.d), 1)

RECURSIVE Pow10(_)
Pow10(k) == IF k = 0 THEN 1 ELSE 10 * Pow10(k - 1)

-----------------------------------------------------------------------------
(* Text: str.strip, str.upper, numeric parsing *)

\* The ASCII characters with str.isspace(), which str.strip() removes:
\* \t \n \x0b \f \r, \x1c \x1d \x1e \x1f and the space.
Whitespace == {"\t", "\n", "", "\f", "\r", "", "", "", "", " "}

\* The characters the number parsers of pandas skip before and after a
\* number: \t \n \x0b \f \r and the space.
NumberSpace == {"\t", "\n", "", "\f", "\r", " "}

LowerLetters == "abcdefghijklmnopqrstuvwxyz"

UpperLetters == "ABCDEFGHIJKLMNOPQRSTUVWXYZ"

Digits == "0123456789"

Char(s, i) == SubSeq(s, i, i)

RECURSIVE LSkip(_, _)
LSkip(s, chars) ==
    IF Len(s) > 0 /\ Char(s, 1) \in chars
    THEN LSkip(SubSeq(s, 2, Len(s)), chars)
    ELSE s

RECURSIVE RSkip(_, _)
RSkip(s, chars) ==
    IF Len(s) > 0 /\ Char(s, Len(s)) \in chars
    THEN RSkip(SubSeq(s, 1, Len(s) - 1), chars)
    ELSE s

LStrip(s) == LSkip(s, Whitespace)

RStrip(s) == RSkip(s, Whitespace)

\* str.strip() with no argument: removes leading and trailing whitespace.
Strip(s) == RStrip(LStrip(s))

\* The upper-case form of an ASCII character.
UpperChar(c) ==
    IF \E i \in 1..26 : Char(LowerLetters, i) = c
    THEN Char(UpperLetters, CHOOSE i \in 1..26 : Char(LowerLetters, i) = c)
    ELSE c

RECURSIVE UpperStr(_)
\* str.upper() on ASCII text: every cased character replaced by its
\* upper-case form.
UpperStr(s) ==
    IF Len(s) = 0
    THEN ""
    ELSE UpperChar(Char(s, 1)) \o UpperStr(SubSeq(s, 2, Len(s)))

IsDigit(c) == \E i \in 1..10 : Char(Digits, i) = c

DigitVal(c) == (CHOOSE i \in 1..10 : Char(Digits, i) = c) - 1

AllDigits(s) == \A i \in 1..Len(s) : IsDigit(Char(s, i))

IsDigits(s) == Len(s) > 0 /\ AllDigits(s)

RECURSIVE DigitsVal(_)
DigitsVal(s) ==
    IF Len(s) = 0
    THEN 0
    ELSE DigitsVal(SubSeq(s, 1, Len(s) - 1)) * 10 + DigitVal(Char(s, Len(s)))

\* An integer literal: an optional sign and one or more digits.
IsIntLiteral(s) ==
    \/ IsDigits(s)
    \/ Len(s) > 1 /\ Char(s, 1) \in {"-", "+"} /\ IsDigits(SubSeq(s, 2, Len(s)))

IntOf(s) ==
    IF Char(s, 1) = "-" THEN 0 - DigitsVal(SubSeq(s, 2, Len(s)))
    ELSE IF Char(s, 1) = "+" THEN DigitsVal(SubSeq(s, 2, Len(s)))
    ELSE DigitsVal(s)

\* The position of the first character of s that is in chars, 0 if none.
FirstIn(s, chars) ==
    IF \E i \in 1..Len(s) : Char(s, i) \in chars
    THEN CHOOSE i \in 1..Len(s) :
             /\ Char(s, i) \in chars
             /\ \A j \in 1..(i - 1) : Char(s, j) \notin chars
    ELSE 0

Sign(s) == IF Len(s) > 0 /\ Char(s, 1) = "-" THEN 0 - 1 ELSE 1

Unsigned(s) ==
    IF Len(s) > 0 /\ Char(s, 1) \in {"-", "+"} THEN SubSeq(s, 2, Len(s)) ELSE s

\* The parts of an unsigned number text: mantissa, then after "e" or "E" the
\* exponent ("0" when there is none).
Mantissa(u) ==
    LET e == FirstIn(u, {"e", "E"})
    IN  IF e = 0 THEN u ELSE SubSeq(u, 1, e - 1)

Exponent(u) ==
    LET e == FirstIn(u, {"e", "E"})
    IN  IF e = 0 THEN "0" ELSE SubSeq(u, e + 1, Len(u))

IntPart(m) ==
    LET p == FirstIn(m, {"."})
    IN  IF p = 0 THEN m ELSE SubSeq(m, 1, p - 1)

FracPart(m) ==
    LET p == FirstIn(m, {"."})
    IN  IF p = 0 THEN "" ELSE SubSeq(m, p + 1, Len(m))

\* A decimal literal: an optional sign, digits with at most one point and at
\* least one digit, and an optional exponent ("5", "5.5", ".5", "5.", "1e3").
IsDecimalLiteral(s) ==
    LET u == Unsigned(s)
        m == Mantissa(u)
        ip == IntPart(m)
        fp == FracPart(m)
    IN  /\ AllDigits(ip)
        /\ AllDigits(fp)
        /\ Len(ip) + Len(fp) > 0
        /\ IsIntLiteral(Exponent(u))

\* The number a decimal literal denotes.
DecimalOf(s) ==
    LET u == Unsigned(s)
        m == Mantissa(u)
        fp == FracPart(m)
        digits == DigitsVal(IntPart(m) \o fp)
        k == IntOf(Exponent(u)) - Len(fp)
    IN  IF k >= 0
        THEN Dec(Sign(s) * digits * Pow10(k), 1)
        ELSE Dec(Sign(s) * digits, Pow10(0 - k))

\* The spellings of infinity, compared without regard to case and without
\* skipping spaces.
IsInfLiteral(t) ==
    /\ Len(t) \in {3, 4, 8, 9}
    /\ UpperStr(t) \in
          {"INF", "+INF", "-INF", "INFINITY", "+INFINITY", "-INFINITY"}

\* The texts pandas parses as a number, in pd.read_csv and in pd.to_numeric.
IsNumberText(t) ==
    \/ IsInfLiteral(t)
    \/ IsDecimalLiteral(RSkip(LSkip(t, NumberSpace), NumberSpace))

\* The number a number text denotes.
NumberOf(t) ==
    IF IsInfLiteral(t)
    THEN IF Char(t, 1) = "-" THEN NegInf ELSE PosInf
    ELSE DecimalOf(RSkip(LSkip(t, NumberSpace), NumberSpace))

\* pd.to_numeric(column, errors='coerce') on one cell of a text column or of
\* a number column: the number the text denotes, NaN when it denotes none.
ToNumeric(cell) ==
    IF cell = NaN THEN NaN
    ELSE IF IsNumberText(cell[1]) THEN Val(NumberOf(cell[1]))
    ELSE NaN

-----------------------------------------------------------------------------
(* The CSV file and pd.read_csv *)

\* Cell texts pd.read_csv reads as a missing value (its default na_values).
NaValues ==
    {"", "#N/A", "#N/A N/A", "#NA", "-1.#IND", "-1.#QNAN", "-NaN", "-nan",
     "1.#IND", "1.#QNAN", "<NA>", "N/A", "NA", "NULL", "NaN", "None", "n/a",
     "nan", "null"}

\* The cell texts pd.read_csv reads as True and as False: "true" and "false"
\* in any casing, no space skipped.
IsTrueText(t) == Len(t) = 4 /\ UpperStr(t) = "TRUE"

IsFalseText(t) == Len(t) = 5 /\ UpperStr(t) = "FALSE"

\* One cell as pd.read_csv delivers it.
ReadCell(t) == IF t \in NaValues THEN NaN ELSE Val(t)

Absent == [kind |-> "absent", header |-> <<>>, rows |-> <<>>]

Malformed == [kind |-> "malformed", header |-> <<>>, rows |-> <<>>]

Table(header, rows) == [kind |-> "table", header |-> header, rows |-> rows]

RECURSIVE NatText(_)
\* str(n) for a natural number n.
NatText(n) ==
    IF n < 10
    THEN Char(Digits, n + 1)
    ELSE NatText(n \div 10) \o Char(Digits, (n % 10) + 1)

\* pd.read_csv names a column whose header field is empty after its
\* position, counted from 0.
NamedColumns(header) ==
    [i \in DOMAIN header |->
        IF header[i] = "" THEN "Unnamed: " \o NatText(i - 1) ELSE header[i]]

\* counts.get(name, 0) and counts[name] = n of the loop below.
Count(counts, name) == IF name \in DOMAIN counts THEN counts[name] ELSE 0

Counted(counts, name, n) ==
    [k \in DOMAIN counts \cup {name} |-> IF k = name THEN n ELSE counts[k]]

RECURSIVE Suffixed(_, _, _, _, _)
\* The inner loop of pd.read_csv on a name seen cur_count times: the name
\* takes the suffix .1, .2, ... until no column has the result.
Suffixed(old_col, col, cur_count, counts, this_header) ==
    IF cur_count = 0
    THEN [col |-> col, counts |-> counts]
    ELSE LET counted == Counted(counts, old_col, cur_count + 1)
             next == old_col \o "." \o NatText(cur_count)
         IN  IF next \in Range(this_header)
             THEN Suffixed(old_col, next, cur_count + 1, counted, this_header)
             ELSE Suffixed(old_col, next, Count(counted, next), counted,
                           this_header)

RECURSIVE Deduplicated(_, _, _)
\* The loop of pd.read_csv that tells equal names apart, over the positions
\* in order.
Deduplicated(order, this_header, counts) ==
    IF Len(order) = 0
    THEN this_header
    ELSE LET i == Head(order)
             r == Suffixed(this_header[i], this_header[i],
                           Count(counts, this_header[i]), counts, this_header)
         IN  Deduplicated(Tail(order),
                          [this_header EXCEPT ![i] = r.col],
                          Counted(r.counts, r.col, 1))

\* Line 79: the names pd.read_csv gives the columns. The columns named in
\* the file come before the unnamed ones in the loop, so that they keep
\* their names.
ReadColumns(header) ==
    LET positions == [i \in DOMAIN header |-> i]
    IN  Deduplicated(
            SelectSeq(positions, LAMBDA i : header[i] # "")
                \o SelectSeq(positions, LAMBDA i : header[i] = ""),
            NamedColumns(header), <<>>)

\* Lines 79 and 82: df.columns = df.columns.str.strip()
StrippedColumns(header) ==
    LET columns == ReadColumns(header)
    IN  [i \in DOMAIN columns |-> Strip(columns[i])]

required_columns ==
    <<"Country", "Year", "Attack Type", "Target Industry",
      "Financial Loss (in Million $)", "Number of Affected Users",
      "Attack Source", "Security Vulnerability Type",
      "Defense Mechanism Used", "Incident Resolution Time (in Hours)">>

\* [col for col in required_columns if col not in df.columns]
missing_columns(columns) ==
    SelectSeq(required_columns, LAMBDA col : col \notin Range(columns))

\* df.rename(columns={...})
Rename(col) ==
    IF col = "Financial Loss (in Million $)" THEN "Financial_Loss_Millions"
    ELSE IF col = "Incident Resolution Time (in Hours)"
         THEN "Resolution_Time_Hours"
    ELSE col

\* The key under which a row carries its index label: pd.read_csv numbers
\* the data rows from 0, and dropna and boolean masks keep the labels.
IndexLabel == "(index)"

\* The positions, in order, of the columns that carry the name k after the
\* strip of line 82 and the rename of lines 96-99: names that pd.read_csv
\* has told apart and that become equal by the strip or by the rename stay
\* equal.
Positions(columns, k) ==
    SelectSeq([j \in DOMAIN columns |-> j], LAMBDA j : Rename(columns[j]) = k)

\* What a row holds under a name: a cell when one column carries the name,
\* the cells of the columns in order when several do (df[name] is then a
\* frame, not a column).
Repeated(v) == Len(v) > 1

\* A missing value in the column, or in one of the columns, of a name.
IsNull(v) == v = NaN \/ (Repeated(v) /\ \E n \in DOMAIN v : v[n] = NaN)

\* The rows of the frame that carry the index label.
Labelled(frame, label) ==
    {i \in DOMAIN frame : frame[i][IndexLabel] = label}

\* df[k] = value with a column as value takes the branch "Column to set is
\* duplicated" of DataFrame.__setitem__: several columns carry the name k
\* and the frame has as many rows as there are such columns.
SetsEachColumn(frame, k) ==
    /\ Len(frame) > 1
    /\ k \in DOMAIN frame[1]
    /\ Len(frame[1][k]) = Len(frame)

\* In that branch the n-th column of the name takes value[n - 1], which a
\* column looks up by index label: KeyError when no row carries the label.
AssignedRaises(frame, k) ==
    /\ SetsEachColumn(frame, k)
    /\ \E n \in DOMAIN frame : Labelled(frame, n - 1) = {}

\* df[k] = value, with value the cells of a column in the order of the rows,
\* when the assignment does not raise. In the branch "Column to set is
\* duplicated" the n-th column of the name holds in every row the cell of
\* the row labelled n - 1; else every column that carries the name takes
\* the column, and a name no column carries is a new column.
Assigned(frame, k, value) ==
    [i \in DOMAIN frame |->
        [c \in DOMAIN frame[i] \cup {k} |->
            IF c # k THEN frame[i][c]
            ELSE IF SetsEachColumn(frame, k)
            THEN [n \in DOMAIN frame |->
                     value[CHOOSE j \in Labelled(frame, n - 1) : TRUE]]
            ELSE IF k \in DOMAIN frame[i] /\ Repeated(frame[i][k])
            THEN [n \in DOMAIN frame[i][k] |-> value[i]]
            ELSE value[i]]]

\* Row i of the frame after read_csv, strip of the column names and rename,
\* every present cell still as its text.
FrameRow(columns, row, i) ==
    [k \in {Rename(columns[j]) : j \in DOMAIN columns} \cup {IndexLabel} |->
        IF k = IndexLabel THEN i - 1
        ELSE LET at == Positions(columns, k)
             IN  IF Len(at) = 1
                 THEN ReadCell(row[at[1]])
                 ELSE [n \in DOMAIN at |-> ReadCell(row[at[n]])]]

\* The rows of the frame; the names of its columns are those of the header.
Frame(f) ==
    LET columns == StrippedColumns(f.header)
    IN  [i \in DOMAIN f.rows |-> FrameRow(columns, f.rows[i], i)]

\* The type pd.read_csv infers for a column of the frame it has read:
\* "number" (int64 or float64) when every present cell is a number text,
\* also when the column has rows and no present cell; "bool" when every
\* present cell is a True or False text; "text" (object) otherwise and for a
\* frame without rows. col is a name that one column carries.
ColumnType(frame, col) ==
    LET present == {frame[i][col][1] :
                       i \in {j \in DOMAIN frame : frame[j][col] # NaN}}
    IN  IF Len(frame) = 0 THEN "text"
        ELSE IF \A t \in present : IsNumberText(t) THEN "number"
        ELSE IF \A t \in present : IsTrueText(t) \/ IsFalseText(t) THEN "bool"
        ELSE "text"

-----------------------------------------------------------------------------
(* load_data: cleaning steps *)

NumericColumns ==
    {"Year", "Financial_Loss_Millions", "Number of Affected Users",
     "Resolution_Time_Hours"}

\* pd.to_numeric(errors='coerce') on one cell of a column of the given type:
\* a bool column is numeric already and counts as 1 and 0.
CoerceCell(type, cell) ==
    IF cell = NaN THEN NaN
    ELSE IF type = "bool"
    THEN Val(IF IsTrueText(cell[1]) THEN One ELSE Zero)
    ELSE ToNumeric(cell)

\* Lines 102-105 on row r of a frame whose numeric columns have the given
\* types.
Coerce(types, r) ==
    [k \in DOMAIN r |->
        IF k \in NumericColumns THEN CoerceCell(types[k], r[k]) ELSE r[k]]

\* Mutant of DropNa: keeps a row unless every column of the subset is null
\* (dropna(how='all')).
DropNaAll(frame, subset) ==
    SelectSeq(frame, LAMBDA r : \E k \in subset : r[k] # NaN)

\* df.dropna(subset=...): drops the rows with a null in any listed column.
DropNa(frame, subset) ==
    SelectSeq(frame, LAMBDA r : \A k \in subset : ~IsNull(r[k]))

\* The columns load_data reads by name in lines 102-115.
ReadByName == NumericColumns \cup {"Attack Type"}

\* Lines 102-119 on a frame in which several columns carry a name; rows are
\* the rows left at line 118. When the name is one that is read, df[name]
\* is a frame: pd.to_numeric raises TypeError on it and it has no .str
\* (AttributeError). Its .map gives a frame of as many columns, and the
\* assignment of lines 118 and 119 raises ValueError unless as many columns
\* carry the name lat, and lon. With one Country column and several named
\* lat or lon the assignment raises KeyError when it sets each column from
\* a label that no row carries.
RepeatedNameRaises(columns, rows) ==
    \/ \E k \in ReadByName : Len(Positions(columns, k)) > 1
    \/ /\ Len(Positions(columns, "Country")) > 1
       /\ \E k \in {"lat", "lon"} :
              Len(Positions(columns, k)) # Len(Positions(columns, "Country"))
    \/ /\ Len(Positions(columns, "Country")) = 1
       /\ \E k \in {"lat", "lon"} : AssignedRaises(rows, k)

\* Line 109: astype(int) raises on a missing or infinite value.
AsTypeRaises(frame) ==
    \E i \in DOMAIN frame :
        frame[i]["Year"] = NaN \/ ~IsFinite(frame[i]["Year"][1])

\* Line 109 on one row.
YearAsInt(r) == [r EXCEPT !["Year"] = Val(AsInt(@[1]))]

\* Line 112: the .str accessor raises AttributeError unless the column holds
\* text. read is the frame as read, rows the rows left at line 112. A number
\* column and a bool column raise; a bool column with a missing cell is an
\* object column of bools, which raises when a bool is left in it.
StrAccessorRaises(read, rows) ==
    LET type == ColumnType(read, "Attack Type")
    IN  \/ type = "number"
        \/ /\ type = "bool"
           /\ \/ \A i \in DOMAIN read : read[i]["Attack Type"] # NaN
              \/ \E i \in DOMAIN rows : rows[i]["Attack Type"] # NaN

\* Line 112: .str.strip().str.upper(); a missing value stays missing.
StandardizeAttack(r) ==
    [r EXCEPT !["Attack Type"] =
        IF @ = NaN THEN NaN ELSE Val(UpperStr(Strip(@[1])))]

\* Mutant of ClipResolution: clips at 0 instead of 1.
ClipResolutionAtZero(r) ==
    [r EXCEPT !["Resolution_Time_Hours"] =
        IF @ # NaN /\ Lt(@[1], Zero) THEN Val(Zero) ELSE @]

\* Line 115: .clip(lower=1); a missing value stays missing.
ClipResolution(r) ==
    [r EXCEPT !["Resolution_Time_Hours"] =
        IF @ # NaN /\ Lt(@[1], One) THEN Val(One) ELSE @]

\* Lines 7-18.
COUNTRY_COORDINATES ==
    [c \in {"China", "India", "UK", "Germany", "France", "Australia",
            "Russia", "Brazil", "Japan", "USA"} |->
        CASE c = "China"     -> <<Dec(358617, 10000), Dec(1041954, 10000)>>
          [] c = "India"     -> <<Dec(205937, 10000), Dec(789629, 10000)>>
          [] c = "UK"        -> <<Dec(553781, 10000), Dec(-34360, 10000)>>
          [] c = "Germany"   -> <<Dec(511657, 10000), Dec(104515, 10000)>>
          [] c = "France"    -> <<Dec(466034, 10000), Dec(18883, 10000)>>
          [] c = "Australia" -> <<Dec(-252744, 10000), Dec(1337751, 10000)>>
          [] c = "Russia"    -> <<Dec(615240, 10000), Dec(1053188, 10000)>>
          [] c = "Brazil"    -> <<Dec(-142350, 10000), Dec(-519253, 10000)>>
          [] c = "Japan"     -> <<Dec(362048, 10000), Dec(1382529, 10000)>>
          [] c = "USA"       -> <<Dec(370902, 10000), Dec(-957129, 10000)>>]

\* COUNTRY_COORDINATES.get(x, (None, None))[axis]
Coordinate(country, axis) ==
    IF country # NaN /\ country[1] \in DOMAIN COUNTRY_COORDINATES
    THEN Val(COUNTRY_COORDINATES[country[1]][axis])
    ELSE NaN

\* Line 118 (k lat, axis 1) and line 119 (k lon, axis 2) on a frame on which
\* they do not raise. With several Country columns the mapped value is a
\* frame, whose columns become those named k; with one it is a column.
CoordinateColumn(frame, k, axis) ==
    IF Len(frame) > 0 /\ Repeated(frame[1]["Country"])
    THEN [i \in DOMAIN frame |->
             [c \in DOMAIN frame[i] \cup {k} |->
                 IF c = k
                 THEN [n \in DOMAIN frame[i]["Country"] |->
                          Coordinate(frame[i]["Country"][n], axis)]
                 ELSE frame[i][c]]]
    ELSE Assigned(frame, k,
                  [i \in DOMAIN frame |->
                      Coordinate(frame[i]["Country"], axis)])

\* Lines 118-119.
AddCoordinates(frame) ==
    CoordinateColumn(CoordinateColumn(frame, "lat", 1), "lon", 2)

-----------------------------------------------------------------------------
(* load_data *)

\* An element written with st.markdown: its kind and what it names.
Msg(kind, cols, n) == [kind |-> kind, cols |-> cols, n |-> n]

\* pd.DataFrame()
EmptyFrame == <<>>

Returned(frame, msgs) == [kind |-> "return", df |-> frame, msgs |-> msgs]

\* st.stop(): StopException derives from BaseException, so the handlers of
\* lines 132-137 do not catch it and it leaves load_data.
Stopped(msgs) == [kind |-> "stop", df |-> EmptyFrame, msgs |-> msgs]

\* Line 122: initial_len = len(df), with read the frame as read and located
\* the frame that has reached line 122.
initial_len(read, located) == Len(located)

\* Lines 101-131 on a frame that has every required column: columns are the
\* names after the strip, frame the rows.
CleanFrame(columns, frame) ==
    LET types == [k \in NumericColumns |-> ColumnType(frame, k)]
        coerced == [i \in DOMAIN frame |-> Coerce(types, frame[i])]
        numeric == DropNa(coerced, NumericColumns)
    IN  IF \/ RepeatedNameRaises(columns, numeric)
           \/ AsTypeRaises(numeric)
           \/ StrAccessorRaises(frame, numeric)
        THEN Returned(EmptyFrame, <<Msg("load_error", <<>>, 0)>>)
        ELSE LET cleaned == [i \in DOMAIN numeric |->
                     ClipResolution(StandardizeAttack(YearAsInt(numeric[i])))]
                 located == AddCoordinates(cleaned)
                 final == DropNa(located, {"lat", "lon"})
                 dropped == initial_len(frame, located) - Len(final)
             IN  Returned(final,
                          IF dropped > 0
                          THEN <<Msg("dropped_coordinates", <<>>, dropped)>>
                          ELSE <<>>)

\* The body of load_data, lines 77-137, on file f.
LoadBody(f) ==
    IF f.kind = "absent"
    THEN Returned(EmptyFrame, <<Msg("not_found", <<>>, 0)>>)
    ELSE IF f.kind = "malformed"
    THEN Returned(EmptyFrame, <<Msg("load_error", <<>>, 0)>>)
    ELSE LET columns == StrippedColumns(f.header)
             missing == missing_columns(columns)
         IN  IF Len(missing) > 0
             THEN Stopped(<<Msg("missing_columns", missing, 0)>>)
             ELSE CleanFrame(columns, Frame(f))

NoEntry == <<>>

\* @st.cache_data on a function without arguments: one entry, keyed by the
\* function alone. A hit returns the stored value and replays the stored
\* elements; a miss runs the body and stores what it returns (a call that
\* ends in an exception stores nothing).
CallLoadData(c, f) ==
    IF c # NoEntry
    THEN [kind |-> "return", df |-> c[1].df, msgs |-> c[1].msgs,
          bodyRan |-> FALSE, cache |-> c]
    ELSE LET b == LoadBody(f)
         IN  [kind |-> b.kind, df |-> b.df, msgs |-> b.msgs, bodyRan |-> TRUE,
              cache |-> IF b.kind = "return"
                        THEN <<[df |-> b.df, msgs |-> b.msgs]>>
                        ELSE c]

-----------------------------------------------------------------------------
(* The tabs *)

Unset == <<>>

NotDrawn == <<>>

\* Series.between(lo, hi): inclusive on both sides.
Between(v, range) == Leq(range[1], v) /\ Leq(v, range[2])

\* Lines 180-184 and 330-334: the same boolean mask in both tabs. isin
\* matches a missing value with a missing value.
FilterFrame(frame, yr, at, fl) ==
    SelectSeq(frame, LAMBDA r :
        /\ Between(r["Year"][1], yr)
        /\ r["Attack Type"] \in at
        /\ Between(r["Financial_Loss_Millions"][1], fl))

RECURSIVE Unique(_)
\* Series.unique(): the distinct values in order of first appearance.
Unique(s) ==
    IF Len(s) = 0
    THEN <<>>
    ELSE LET front == Unique(SubSeq(s, 1, Len(s) - 1))
         IN  IF s[Len(s)] \in Range(front) THEN front
             ELSE Append(front, s[Len(s)])

Column(frame, col) == [i \in DOMAIN frame |-> frame[i][col]]

marker_symbols ==
    <<"circle", "square", "diamond", "cross", "x", "triangle-up",
      "triangle-down", "pentagon", "hexagon">>

\* Lines 199-203: the symbol of row r, cycling through marker_symbols.
MarkerSymbol(unique_attack_types, attack) ==
    LET i == (CHOOSE j \in DOMAIN unique_attack_types :
                  unique_attack_types[j] = attack) - 1
    IN  Val(marker_symbols[(i % Len(marker_symbols)) + 1])

\* Line 203 on a frame on which it does not raise.
AddMarkerSymbol(frame) ==
    LET unique_attack_types == Unique(Column(frame, "Attack Type"))
    IN  Assigned(frame, "Marker Symbol",
                 [i \in DOMAIN frame |->
                     MarkerSymbol(unique_attack_types,
                                  frame[i]["Attack Type"])])

required_plot_columns ==
    <<"lat", "lon", "Financial_Loss_Millions", "Attack Type", "Marker Symbol">>

\* Line 210 on a name that several columns carry: .isnull().any() is then a
\* column, and taking its truth value raises ValueError.
NullCheckRaises(frame, col) == \E i \in DOMAIN frame : Repeated(frame[i][col])

\* Lines 209-212: the columns at which the loop ends, in the order it visits
\* them: those holding a missing value and those whose check raises.
NullPlotColumns(frame) ==
    SelectSeq(required_plot_columns,
              LAMBDA col : \/ NullCheckRaises(frame, col)
                           \/ \E i \in DOMAIN frame : frame[i][col] = NaN)

\* Several columns of the frame carry one name. plotly.express reads the
\* frame it is given through narwhals, which raises on such a frame.
HasRepeatedColumn(frame) ==
    \E i \in DOMAIN frame :
        \E k \in DOMAIN frame[i] \ {IndexLabel} : Repeated(frame[i][k])

\* Lines 215-221: what remains for the figure.
PlotFrame(frame) ==
    SelectSeq(DropNa(frame, {"lat", "lon"}),
              LAMBDA r : Lt(Zero, r["Financial_Loss_Millions"][1]))

\* sorted(df['Attack Type'].unique()) raises TypeError when it has to
\* compare a missing value (a float) with a text.
SortRaises(frame) ==
    LET u == Range(Column(frame, "Attack Type"))
    IN  NaN \in u /\ u # {NaN}

\* The step of st.slider: 1 when min_value, max_value and value are
\* integers (line 158), 0.01 when they are floats (line 172).
IntStep == Dec(1, 1)

FloatStep == Dec(1, 100)

\* The positions of a slider: from min_value upwards in steps, and max_value
\* (the upper end of the default value).
SliderPositions(lo, hi, step) ==
    {Plus(lo, Times(k, step)) :
        k \in 0..(((hi.n * lo.d - lo.n * hi.d) * step.d)
                      \div (hi.d * lo.d * step.n))}
    \cup {hi}

\* st.slider raises StreamlitAPIException when min_value equals max_value
\* (the column has one distinct value) and when one of them is beyond the
\* largest float of JavaScript, as an infinity is.
SliderRaises(frame, col) ==
    LET vs == {frame[i][col][1] : i \in DOMAIN frame}
    IN  Cardinality(vs) = 1 \/ \E v \in vs : ~IsFinite(v)

\* st.slider with a pair as value: any lo <= hi among the positions between
\* min_value and max_value, the least and greatest value of the column; no
\* value when the call raises.
SliderRanges(frame, col, step) ==
    IF SliderRaises(frame, col)
    THEN {}
    ELSE LET vs == {frame[i][col][1] : i \in DOMAIN frame}
             ps == SliderPositions(Min(vs), Max(vs), step)
         IN  {p \in ps \X ps : Leq(p[1], p[2])}

\* Line 187: the options of the map type selectbox; the first is the default.
MapTypes == <<"2D Map", "3D Globe">>

\* st.multiselect: any subset of the options.
AttackSelections(frame) == SUBSET Range(Column(frame, "Attack Type"))

\* The map tab, lines 152-322, on the loaded frame with the widget values
\* yr, at, fl and map_type: where the run goes, what the globals hold, what
\* is shown. An exception of a widget, of the assignment of line 203 or of a
\* figure is not caught: the run ends where it is raised. With "2D Map" line
\* 236 passes symbol= to px.scatter_mapbox, which has no such parameter: the
\* call raises TypeError.
MapTab(frame, yr, at, fl, map_type) ==
    IF Len(frame) = 0
    THEN [pc |-> "map_done", year_range |-> Unset, attack_types |-> Unset,
          financial_loss_range |-> Unset, mapData |-> NotDrawn,
          msgs |-> <<Msg("no_data_map", <<>>, 0)>>]
    ELSE IF SliderRaises(frame, "Year")
    THEN [pc |-> "crashed", year_range |-> Unset, attack_types |-> Unset,
          financial_loss_range |-> Unset, mapData |-> NotDrawn,
          msgs |-> <<Msg("exception", <<>>, 0)>>]
    ELSE IF SortRaises(frame)
    THEN [pc |-> "crashed", year_range |-> Val(yr), attack_types |-> Unset,
          financial_loss_range |-> Unset, mapData |-> NotDrawn,
          msgs |-> <<Msg("exception", <<>>, 0)>>]
    ELSE IF SliderRaises(frame, "Financial_Loss_Millions")
    THEN [pc |-> "crashed", year_range |-> Val(yr), attack_types |-> Val(at),
          financial_loss_range |-> Unset, mapData |-> NotDrawn,
          msgs |-> <<Msg("exception", <<>>, 0)>>]
    ELSE LET filtered == FilterFrame(frame, yr, at, fl)
             filtered_df == AddMarkerSymbol(filtered)
             nulls == NullPlotColumns(filtered_df)
             set == [year_range |-> Val(yr), attack_types |-> Val(at),
                     financial_loss_range |-> Val(fl)]
         IN  IF AssignedRaises(filtered, "Marker Symbol")
             THEN set @@ [pc |-> "crashed", mapData |-> NotDrawn,
                          msgs |-> <<Msg("exception", <<>>, 0)>>]
             ELSE IF Len(filtered_df) = 0
             THEN set @@ [pc |-> "map_done", mapData |-> NotDrawn,
                          msgs |-> <<Msg("no_match_map", <<>>, 0)>>]
             ELSE IF Len(nulls) > 0 /\ NullCheckRaises(filtered_df, nulls[1])
             THEN set @@ [pc |-> "crashed", mapData |-> NotDrawn,
                          msgs |-> <<Msg("exception", <<>>, 0)>>]
             ELSE IF Len(nulls) > 0
             THEN set @@ [pc |-> "halted_in_map", mapData |-> NotDrawn,
                          msgs |-> <<Msg("null_column", <<nulls[1]>>, 0)>>]
             ELSE IF \E i \in DOMAIN PlotFrame(filtered_df) :
                        PlotFrame(filtered_df)[i]["Marker Symbol"][1]
                            \notin Range(marker_symbols)
             THEN set @@ [pc |-> "halted_in_map", mapData |-> NotDrawn,
                          msgs |-> <<Msg("invalid_symbol", <<>>, 0)>>]
             ELSE IF map_type = "2D Map" \/ HasRepeatedColumn(filtered_df)
             THEN set @@ [pc |-> "crashed", mapData |-> NotDrawn,
                          msgs |-> <<Msg("exception", <<>>, 0)>>]
             ELSE set @@ [pc |-> "map_done",
                          mapData |-> Val(PlotFrame(filtered_df)),
                          msgs |-> <<>>]

\* Mutant of ChartTab: the filter of lines 330-334 is not guarded by
\* "if not df.empty".
ChartTabUnguarded(frame, yr, at, fl) ==
    IF yr = Unset \/ at = Unset \/ fl = Unset
    THEN [chartData |-> NotDrawn, msgs |-> <<Msg("chart_error", <<>>, 0)>>]
    ELSE LET filtered_df == FilterFrame(frame, yr[1], at[1], fl[1])
         IN  IF Len(filtered_df) > 0 /\ Repeated(filtered_df[1]["Country"])
             THEN [chartData |-> NotDrawn,
                   msgs |-> <<Msg("chart_error", <<>>, 0)>>]
             ELSE IF Len(filtered_df) > 0
             THEN [chartData |-> Val(filtered_df),
                   msgs |-> IF HasRepeatedColumn(filtered_df)
                            THEN <<Msg("chart_error", <<>>, 0)>>
                            ELSE <<>>]
             ELSE [chartData |-> NotDrawn,
                   msgs |-> <<Msg("no_match_charts", <<>>, 0)>>]

\* The analytics tab, lines 324-448. Reading an unassigned global raises
\* NameError, which the handler of line 445 turns into an error box. So it
\* does, on a frame in which several columns carry one name, the exception
\* of groupby('Country') at line 342 when the name is Country, and else
\* that of the second chart, the first to be given the filtered frame.
ChartTab(frame, yr, at, fl) ==
    IF Len(frame) = 0
    THEN [chartData |-> NotDrawn, msgs |-> <<Msg("no_data_charts", <<>>, 0)>>]
    ELSE IF yr = Unset \/ at = Unset \/ fl = Unset
    THEN [chartData |-> NotDrawn, msgs |-> <<Msg("chart_error", <<>>, 0)>>]
    ELSE LET filtered_df == FilterFrame(frame, yr[1], at[1], fl[1])
         IN  IF Len(filtered_df) > 0 /\ Repeated(filtered_df[1]["Country"])
             THEN [chartData |-> NotDrawn,
                   msgs |-> <<Msg("chart_error", <<>>, 0)>>]
             ELSE IF Len(filtered_df) > 0
             THEN [chartData |-> Val(filtered_df),
                   msgs |-> IF HasRepeatedColumn(filtered_df)
                            THEN <<Msg("chart_error", <<>>, 0)>>
                            ELSE <<>>]
             ELSE [chartData |-> NotDrawn,
                   msgs |-> <<Msg("no_match_charts", <<>>, 0)>>]

-----------------------------------------------------------------------------
(* Inputs *)

\* Largest number of data rows of the files drawn from the pools of rows.
MaxRows == 2

Header == required_columns

\* The same header written with padded column names.
PaddedHeader == [i \in DOMAIN Header |-> " " \o Header[i] \o "  "]

WithoutColumns(header, cols) ==
    SelectSeq(header, LAMBDA col : Strip(col) \notin cols)

\* A data row in the order of Header.
Row(country, year, attack, loss, users, hours) ==
    <<country, year, attack, "Banking", loss, users, "Hacker Group",
      "Zero-day", "Firewall", hours>>

SeqsUpTo(S, n) == UNION {[1..k -> S] : k \in 0..n}

\* Rows with parseable numbers: the country and attack-type spellings, and
\* the kinds of resolution time.
CleanRows ==
    {Row("USA", "2020", " a\n", "5", "1000", "12"),
     Row("USA", "2020", "A", "5", "1000", "12"),
     Row("USA", "2020", "", "5", "1000", "12"),
     Row("usa", "2020", "A", "5", "1000", "12"),
     Row("Atlantis", "2020", "A", "5", "1000", "12")}
    \cup {Row("India", "2021", "A", "5.5", "1e3", h) :
            h \in {"-3", "0", "0.5", "1", "12"}}

\* Rows whose reading depends on the type of their column: a fractional
\* year, a true among the user counts, a true and a number as attack type,
\* an infinite year, a false as year.
TypedRows ==
    {Row("USA", "2020.9", "A", "5", "tRue", "12"),
     Row("USA", "2020", "tRue", "5", "1000", "12"),
     Row("USA", "2020", "5.5", "5", "1000", "12"),
     Row("USA", "inf", "A", "5", "1000", "12"),
     Row("USA", "fALSE", "A", "5", "1000", "12")}

\* Rows with one unparseable or missing number.
BrokenRows ==
    {Row("USA", "abc", "True", "5", "1000", "12"),
     Row("USA", "2020", "A", "", "1000", "12"),
     Row("USA", "2020", "A", "5", "1e", "12"),
     Row("USA", "2020", "A", "5", "1000", "N/A"),
     Row("Atlantis", "2020", "A", "5", "1.5.0", "12")}

LoadRows == CleanRows \cup TypedRows \cup BrokenRows

\* The file with a further column, of the given header field and cells.
WithColumn(f, name, cells) ==
    Table(Append(f.header, name),
          [i \in DOMAIN f.rows |-> Append(f.rows[i], cells[i])])

\* The file with a further column whose header field is name and whose
\* cells are all cell.
WithRepeated(f, name, cell) ==
    WithColumn(f, name, [i \in DOMAIN f.rows |-> cell])

\* Header fields of a further column: a name of the header again (read as
\* Year.1), an empty one (read as Unnamed: 10), and names that the strip
\* makes equal to one load_data reads and to one it does not read.
FurtherNames == {"Year", "", " Year", " Attack Source"}

\* The file with a second column named Country, of the given cells, and two
\* columns each named lat and lon, once the names are stripped.
WithSecondCountry(f, countries) ==
    WithRepeated(WithRepeated(WithRepeated(WithRepeated(
        WithColumn(f, " Country", countries),
        "lat", "0"), " lat", ""), "lon", "0"), " lon", "")

\* The file with two further columns that carry the name once the names
\* are stripped.
WithTwoColumns(f, name) ==
    WithRepeated(WithRepeated(f, name, "0"), " " \o name, "0")

\* Rows of the files with two columns named lat, or lon: countries with and
\* without coordinate, a resolution time below 1, an unparseable year.
CoordinateRows ==
    {Row("USA", "2020", "A", "5", "1000", "0.5"),
     Row("India", "2021", "A", "5.5", "1e3", "12"),
     Row("Atlantis", "2020", "A", "5", "1000", "12"),
     Row("USA", "abc", "True", "5", "1000", "12")}

\* A table of which the numeric dropna drops the first record: the two that
\* are left carry the labels 1 and 2.
FirstDropped ==
    Table(Header, <<Row("USA", "abc", "True", "5", "1000", "12"),
                    Row("USA", "2020", "A", "5", "1000", "0.5"),
                    Row("India", "2021", "A", "5.5", "1e3", "12")>>)

\* Files of up to MaxRows rows, short files under the padded header, short
\* files with a further column, files with a second Country column with
\* and without the lat and lon columns to go with it, and files with one
\* Country column and two columns named lat, or lon.
LoadFiles ==
    {Table(Header, rows) : rows \in SeqsUpTo(LoadRows, MaxRows)}
    \cup {Table(PaddedHeader, rows) : rows \in SeqsUpTo(LoadRows, 1)}
    \cup {WithRepeated(Table(Header, rows), name, "2021") :
             rows \in SeqsUpTo(CleanRows, 1), name \in FurtherNames}
    \cup {WithSecondCountry(Table(Header, rows),
                            [i \in DOMAIN rows |-> second]) :
             rows \in SeqsUpTo(CleanRows, 1),
             second \in {"India", "Atlantis"}}
    \cup {WithRepeated(Table(Header, rows), " Country", "India") :
             rows \in SeqsUpTo(CleanRows, 1)}
    \cup {WithTwoColumns(Table(Header, rows), name) :
             rows \in SeqsUpTo(CoordinateRows, MaxRows),
             name \in {"lat", "lon"}}
    \cup {WithTwoColumns(FirstDropped, "lat")}

SessionRows ==
    {Row("USA", "2020", " a", "0.02", "1000", "12"),
     Row("India", "2021", "B", "0", "1000", "0"),
     Row("USA", "2021", "", "0.02", "1000", "12"),
     Row("Atlantis", "2020", "a", "0.02", "1000", "12"),
     Row("USA", "2020", "A", "inf", "1000", "12"),
     Row("USA", "2021", "A", "0.02", "1000", "12")}

\* A table whose two records differ in year and in loss.
TwoRecords ==
    Table(Header, <<Row("USA", "2020", " a", "0.02", "1000", "12"),
                    Row("India", "2021", "B", "0", "1000", "0")>>)

\* A table of which load_data keeps two records without attack type, which
\* differ in year and in loss.
MissingAttackRecords ==
    Table(Header, <<Row("USA", "2021", "", "0.02", "1000", "12"),
                    Row("India", "2020", "", "0", "1000", "12"),
                    Row("Atlantis", "2020", "a", "0.02", "1000", "12")>>)

\* A table of which load_data keeps two records without attack type, which
\* carry the labels 1 and 2.
FirstDroppedMissingAttack ==
    Table(Header, <<Row("USA", "abc", "a", "0.02", "1000", "12"),
                    Row("USA", "2021", "", "0.02", "1000", "12"),
                    Row("India", "2020", "", "0", "1000", "12")>>)

SessionFiles ==
    {Absent, Malformed, MissingAttackRecords,
     Table(WithoutColumns(Header, {"Target Industry"}), <<>>),
     Table(WithoutColumns(PaddedHeader, {"Year", "Attack Source"}), <<>>)}
    \cup {Table(Header, rows) : rows \in SeqsUpTo(SessionRows, MaxRows)}
    \cup {WithRepeated(TwoRecords, name, "2021") : name \in FurtherNames}
    \cup {WithSecondCountry(TwoRecords, <<"India", "USA">>)}
    \cup {WithTwoColumns(TwoRecords, "lat")}
    \cup {WithTwoColumns(f, "Marker Symbol") :
             f \in {TwoRecords, MissingAttackRecords,
                    FirstDroppedMissingAttack}}

\* The files that replace the file between two runs: none, one without a
\* required column, those with at most one row.
ReplacementFiles ==
    {Absent, Table(WithoutColumns(Header, {"Target Industry"}), <<>>)}
    \cup {Table(Header, rows) : rows \in SeqsUpTo(SessionRows, 1)}

-----------------------------------------------------------------------------
(* The script as a state machine *)

Fresh(files) ==
    /\ file \in files
    /\ cache = NoEntry
    /\ pc = "idle"
    /\ df = EmptyFrame
    /\ shown = <<>>
    /\ year_range = Unset
    /\ attack_types = Unset
    /\ financial_loss_range = Unset
    /\ mapData = NotDrawn
    /\ chartData = NotDrawn
    /\ bodyRan = FALSE
    /\ calls = "none"
    /\ firstRet = <<>>
    /\ fileChanged = FALSE

\* The server process starts; no run has been made.
Init == Fresh(SessionFiles)

\* The file is replaced between two runs.
ChangeFile ==
    /\ pc = "idle"
    /\ \E f \in ReplacementFiles \ {file} : file' = f
    /\ fileChanged' = TRUE
    /\ UNCHANGED <<cache, pc, df, shown, year_range, attack_types,
                   financial_loss_range, mapData, chartData, bodyRan, calls,
                   firstRet>>

\* A run starts and reaches line 140: df = load_data().
StartRun ==
    /\ pc = "idle"
    /\ \E r \in {CallLoadData(cache, file)} :
           /\ cache' = r.cache
           /\ df' = r.df
           /\ shown' = r.msgs
           /\ bodyRan' = r.bodyRan
           /\ pc' = IF r.kind = "stop" THEN "halted_in_load" ELSE "loaded"
           /\ calls' = IF calls = "none" THEN "first" ELSE "later"
           /\ firstRet' = IF calls = "none" THEN <<r>> ELSE firstRet
    /\ UNCHANGED <<file, year_range, attack_types, financial_loss_range,
                   mapData, chartData, fileChanged>>

\* Lines 152-322, with the values the user has set on the widgets.
Tab1 ==
    /\ pc = "loaded"
    /\ \E yr \in (IF Len(df) = 0 \/ SliderRaises(df, "Year")
                  THEN {Unset}
                  ELSE SliderRanges(df, "Year", IntStep)),
          at \in (IF Len(df) = 0 THEN {Unset} ELSE AttackSelections(df)),
          fl \in (IF Len(df) = 0 \/ SliderRaises(df, "Financial_Loss_Millions")
                  THEN {Unset}
                  ELSE SliderRanges(df, "Financial_Loss_Millions", FloatStep)),
          map_type \in Range(MapTypes) :
          \E t \in {MapTab(df, yr, at, fl, map_type)} :
              /\ pc' = t.pc
              /\ year_range' = t.year_range
              /\ attack_types' = t.attack_types
              /\ financial_loss_range' = t.financial_loss_range
              /\ mapData' = t.mapData
              /\ shown' = shown \o t.msgs
    /\ UNCHANGED <<file, cache, df, chartData, bodyRan, calls, firstRet,
                   fileChanged>>

\* Lines 324-458.
Tab2 ==
    /\ pc = "map_done"
    /\ \E t \in {ChartTab(df, year_range, attack_types,
                          financial_loss_range)} :
           /\ chartData' = t.chartData
           /\ shown' = shown \o t.msgs
    /\ pc' = "done"
    /\ UNCHANGED <<file, cache, df, year_range, attack_types,
                   financial_loss_range, mapData, bodyRan, calls, firstRet,
                   fileChanged>>

\* The run is over (completed, stopped or failed): its namespace is gone, the
\* cache entry stays.
EndRun ==
    /\ pc \in {"done", "halted_in_load", "halted_in_map", "crashed"}
    /\ pc' = "idle"
    /\ df' = EmptyFrame
    /\ shown' = <<>>
    /\ year_range' = Unset
    /\ attack_types' = Unset
    /\ financial_loss_range' = Unset
    /\ mapData' = NotDrawn
    /\ chartData' = NotDrawn
    /\ UNCHANGED <<file, cache, bodyRan, calls, firstRet, fileChanged>>

Next == ChangeFile \/ StartRun \/ Tab1 \/ Tab2 \/ EndRun

Spec == Init /\ [][Next]_vars

\* One call of load_data on a cold cache, over a wide set of files.
InitLoad == Fresh(LoadFiles)

NextLoad == StartRun

SpecLoad == InitLoad /\ [][NextLoad]_vars

-----------------------------------------------------------------------------
(* Vocabulary of the properties *)

HasAllColumns(f) ==
    /\ f.kind = "table"
    /\ Range(required_columns) \subseteq Range(StrippedColumns(f.header))

\* The text of data row i of f under the column named col (the one column
\* of that name, for the names of which the properties speak).
RawCell(f, i, col) ==
    LET columns == StrippedColumns(f.header)
    IN  f.rows[i][CHOOSE j \in DOMAIN columns : columns[j] = col]

RawNumericColumns ==
    {"Year", "Financial Loss (in Million $)", "Number of Affected Users",
     "Incident Resolution Time (in Hours)"}

\* The number pandas reads in data row i of f under the numeric column col,
\* NaN when the cell is empty or its text is no number.
RawNumber(f, i, col) ==
    CoerceCell(ColumnType(Frame(f), Rename(col)), ReadCell(RawCell(f, i, col)))

BadNumeric(f, i) ==
    \E col \in RawNumericColumns : RawNumber(f, i, col) = NaN

KnownCountries ==
    {"China", "India", "UK", "Germany", "France", "Australia", "Russia",
     "Brazil", "Japan", "USA"}

\* Data row i of f has a country without coordinate, in the column or in
\* one of the columns named Country.
NoCoordinate(f, i) ==
    LET columns == StrippedColumns(f.header)
    IN  \E j \in DOMAIN columns :
            /\ columns[j] = "Country"
            /\ f.rows[i][j] \notin KnownCountries

\* File f has one Country column and several columns named lat, or lon.
SeveralCoordinateColumns(f) ==
    LET columns == StrippedColumns(f.header)
    IN  /\ Len(Positions(columns, "Country")) = 1
        /\ \E k \in {"lat", "lon"} : Len(Positions(columns, k)) > 1

\* The cells a row holds under a name, one for each column of that name.
Cells(v) == IF Repeated(v) THEN v ELSE <<v>>

\* Data row i of the file is a row of the table in df.
Retained(i) == \E j \in DOMAIN df : df[j][IndexLabel] = i - 1

Showing(kind) == \E m \in Range(shown) : m.kind = kind

\* load_data returned without taking one of its exception handlers.
LoadSucceeded ==
    pc = "loaded" /\ ~Showing("not_found") /\ ~Showing("load_error")

\* The count in the dropped-rows warning, 0 when there is no warning.
ReportedDropped ==
    IF Showing("dropped_coordinates")
    THEN (CHOOSE m \in Range(shown) : m.kind = "dropped_coordinates").n
    ELSE 0

IsUpperCase(s) ==
    \A i \in 1..Len(s) :
        \A j \in 1..26 : Char(s, i) # Char(LowerLetters, j)

IsTrimmed(s) ==
    \/ Len(s) = 0
    \/ Char(s, 1) \notin Whitespace /\ Char(s, Len(s)) \notin Whitespace

-----------------------------------------------------------------------------
(* C1 *)

\* C1: for a file with all ten required columns, every row of the table
\* load_data returns has a non-null Year, Financial_Loss_Millions, Number of
\* Affected Users, Resolution_Time_Hours, lat and lon, and no data row with
\* an unparseable number or a country without coordinate is in the table.
C1_RetainedRowsAreComplete ==
    (pc = "loaded" /\ HasAllColumns(file)) =>
        /\ \A j \in DOMAIN df :
              \A k \in NumericColumns \cup {"lat", "lon"} : ~IsNull(df[j][k])
        /\ \A i \in DOMAIN file.rows :
              Retained(i) => ~(BadNumeric(file, i) \/ NoCoordinate(file, i))

\* A load that kept one row and dropped one for an unparseable number.
C1_Witness ==
    /\ pc = "loaded"
    /\ HasAllColumns(file)
    /\ Len(file.rows) = 2
    /\ BadNumeric(file, 1) /\ ~NoCoordinate(file, 1)
    /\ Retained(2)
    /\ Len(df) = 1

-----------------------------------------------------------------------------
(* C4 *)

\* C4 as stated: after a successful load the reported dropped-row count is
\* the number of data rows read minus the number of rows returned.
C4_ReportsEveryDrop ==
    (LoadSucceeded /\ HasAllColumns(file)) =>
        ReportedDropped = Len(file.rows) - Len(df)

\* Supporting property: after a successful load the reported dropped-row
\* count is the number of rows left by the numeric dropna minus the number of
\* rows returned; rows dropped for a null numeric field are not counted.
ReportsCoordinateDrops ==
    (LoadSucceeded /\ HasAllColumns(file)) =>
        ReportedDropped =
            Cardinality({i \in DOMAIN file.rows : ~BadNumeric(file, i)})
                - Len(df)

-----------------------------------------------------------------------------
(* C5 *)

\* The pair stored for the country of a cell, axis 1 or 2.
Stored(country, axis) == Val(COUNTRY_COORDINATES[country[1]][axis])

\* In row r the coordinate column k holds, for every Country cell with one
\* of the ten names, the stored value of the axis.
ExactAxis(r, k, axis) ==
    \A n \in DOMAIN Cells(r["Country"]), m \in DOMAIN Cells(r[k]) :
        LET country == Cells(r["Country"])[n]
        IN  ((Repeated(r["Country"]) => m = n)
                /\ country # NaN
                /\ country[1] \in KnownCountries)
            => Cells(r[k])[m] = Stored(country, axis)

ExactCoordinates ==
    \A j \in DOMAIN df :
        /\ ExactAxis(df[j], "lat", 1)
        /\ ExactAxis(df[j], "lon", 2)
        /\ (df[j]["Country"] = Val("USA") =>
                /\ Cells(df[j]["lat"])[1] = Val(Dec(370902, 10000))
                /\ Cells(df[j]["lon"])[1] = Val(Dec(-957129, 10000)))

UnknownCountriesDropped ==
    \A i \in DOMAIN file.rows : NoCoordinate(file, i) => ~Retained(i)

\* C5: retained rows with one of the ten names carry exactly the stored
\* pair, rows with any other country are dropped, and the reported
\* missing-coordinate count is the number of rows with such a country.
C5_CountsEveryUnknownCountry ==
    (pc = "loaded" /\ HasAllColumns(file)) =>
        /\ ExactCoordinates
        /\ UnknownCountriesDropped
        /\ ReportedDropped =
              Cardinality({i \in DOMAIN file.rows : NoCoordinate(file, i)})

\* Supporting property: the second part holds for every load, the first for
\* every load of a file that has not several columns named lat or lon
\* beside one Country column.
StaticGeocoding ==
    (pc = "loaded" /\ HasAllColumns(file)) =>
        /\ UnknownCountriesDropped
        /\ ~SeveralCoordinateColumns(file) => ExactCoordinates

-----------------------------------------------------------------------------
(* C6 *)

\* C6: in every row of the returned table Attack Type is an upper-case text
\* without leading or trailing whitespace, and two raw values that differ
\* only in case or surrounding whitespace become the same value.
C6_AttackTypeNormalized ==
    (pc = "loaded" /\ HasAllColumns(file)) =>
        /\ \A j \in DOMAIN df :
              /\ df[j]["Attack Type"] # NaN
              /\ IsUpperCase(df[j]["Attack Type"][1])
              /\ IsTrimmed(df[j]["Attack Type"][1])
        /\ \A j1, j2 \in DOMAIN df :
              LET raw1 == RawCell(file, df[j1][IndexLabel] + 1, "Attack Type")
                  raw2 == RawCell(file, df[j2][IndexLabel] + 1, "Attack Type")
              IN  UpperStr(Strip(raw1)) = UpperStr(Strip(raw2)) =>
                      df[j1]["Attack Type"] = df[j2]["Attack Type"]

-----------------------------------------------------------------------------
(* C7 *)

RawHours(i) == RawNumber(file, i, "Incident Resolution Time (in Hours)")[1]

\* C7: in every row of the returned table Resolution_Time_Hours is at least
\* 1; a raw value below 1 has become 1 and its row is kept, a raw value of 1
\* or more is unchanged. Kept: whatever its raw time, a row with parseable
\* numbers that is not in the table is one of those the missing-coordinate
\* warning counts, and a row with parseable numbers and a country with
\* coordinate is in the table, unless the file has several columns named
\* lat or lon beside one Country column (lines 118-119 then fill them from
\* other rows, and line 123 drops a row for the country of another).
C7_ResolutionAtLeastOne ==
    (pc = "loaded" /\ HasAllColumns(file)) =>
        /\ \A j \in DOMAIN df :
              LET raw == RawHours(df[j][IndexLabel] + 1)
              IN  /\ df[j]["Resolution_Time_Hours"] # NaN
                  /\ Leq(One, df[j]["Resolution_Time_Hours"][1])
                  /\ df[j]["Resolution_Time_Hours"][1] =
                        IF Lt(raw, One) THEN One ELSE raw
        /\ LoadSucceeded =>
              LET parseable == {i \in DOMAIN file.rows : ~BadNumeric(file, i)}
              IN  /\ Cardinality({i \in parseable : ~Retained(i)})
                        = ReportedDropped
                  /\ \A i \in parseable :
                        (/\ ~NoCoordinate(file, i)
                         /\ ~SeveralCoordinateColumns(file)) => Retained(i)

\* A row with raw time 0.5 kept with 1 beside a row with raw time 12.
C7_Witness ==
    /\ LoadSucceeded
    /\ HasAllColumns(file)
    /\ Len(df) = 2
    /\ RawHours(1) = Dec(5, 10)
    /\ df[1]["Resolution_Time_Hours"] = Val(One)
    /\ RawHours(2) = Dec(12, 1)
    /\ df[2]["Resolution_Time_Hours"] = Val(Dec(12, 1))

-----------------------------------------------------------------------------
(* C2 *)

MissingFrom(f) == missing_columns(StrippedColumns(f.header))

\* The call of load_data of this run is over.
AfterCall == pc \in {"loaded", "halted_in_load"}

\* C2: when required columns are missing from the header, load_data returns
\* an empty table to its caller together with an error naming every missing
\* column; the run is not halted inside load_data.
C2_SchemaErrorReturnsEmptyTable ==
    (AfterCall /\ file.kind = "table" /\ Len(MissingFrom(file)) > 0) =>
        /\ pc = "loaded"
        /\ df = EmptyFrame
        /\ Msg("missing_columns", MissingFrom(file), 0) \in Range(shown)

-----------------------------------------------------------------------------
(* C3 *)

\* C3: a call of load_data returns the table computed from the content the
\* file has at that call, also after the content has changed; it never returns
\* the table computed from an earlier content.
C3_FreshTableAfterChange ==
    pc = "loaded" =>
        /\ LoadBody(file).kind = "return"
        /\ df = LoadBody(file).df

-----------------------------------------------------------------------------
(* C8 *)

\* C8: when the file does not exist, load_data shows the not-found message
\* and returns an empty table, the run is not halted, no filter control is
\* built and both tabs show their no-data warning.
C8_AbsentFileGivesEmptyRun ==
    (file = Absent /\ pc # "idle") =>
        /\ pc \in {"loaded", "map_done", "done"}
        /\ df = EmptyFrame
        /\ Showing("not_found")
        /\ year_range = Unset
        /\ attack_types = Unset
        /\ financial_loss_range = Unset
        /\ pc \in {"map_done", "done"} => Showing("no_data_map")
        /\ pc = "done" => Showing("no_data_charts")

-----------------------------------------------------------------------------
(* C9 *)

\* C9: while the file is unchanged, every call of load_data after the first
\* returns the table the first call returned and does not run the body.
C9_LaterCallsServedFromCache ==
    (AfterCall /\ ~fileChanged /\ calls = "later") =>
        /\ ~bodyRan
        /\ pc = "loaded"
        /\ firstRet[1].kind = "return"
        /\ df = firstRet[1].df

-----------------------------------------------------------------------------
(* C10 *)

FiltersAssigned ==
    year_range # Unset /\ attack_types # Unset /\ financial_loss_range # Unset

\* A record without the column that only the map frame has.
Record(r) == [k \in DOMAIN r \ {"Marker Symbol"} |-> r[k]]

Records(data) ==
    IF data = NotDrawn THEN {} ELSE {Record(data[1][i]) : i \in DOMAIN data[1]}

\* The records of the loaded table that the selection of the run picks.
Selected ==
    Records(Val(FilterFrame(df, year_range[1], attack_types[1],
                            financial_loss_range[1])))

\* The run is over.
RunOver == pc \in {"done", "halted_in_load", "halted_in_map", "crashed"}

\* C10: for every loaded table and every selection of year range, attack
\* types and loss range, when the run is over the records plotted on the map
\* and the records fed to the analytic charts are the same set, the records
\* the selection picks.
C10_SameRecordsInBothTabs ==
    (RunOver /\ FiltersAssigned) =>
        /\ Records(mapData) = Records(chartData)
        /\ Records(chartData) = Selected

\* Supporting property: in a run that rendered both tabs the charts are fed
\* the selected records and the map plots those of them with a loss above 0.
MapShowsPositiveLossRecords ==
    (pc = "done" /\ FiltersAssigned) =>
        /\ Records(chartData) = Selected
        /\ Records(mapData) =
              IF mapData = NotDrawn THEN {}
              ELSE {r \in Selected : Lt(Zero, r["Financial_Loss_Millions"][1])}

-----------------------------------------------------------------------------
(* C11 *)

\* The analytics tab has been entered in this run: it always leaves a chart
\* frame or one of its boxes.
AnalyticsTabEntered ==
    \/ chartData # NotDrawn
    \/ Showing("no_data_charts")
    \/ Showing("no_match_charts")
    \/ Showing("chart_error")

\* C11: in every run, the analytics tab reads year_range, attack_types and
\* financial_loss_range only when the map tab assigned all three earlier in
\* the run (both are guarded by the table being non-empty), so it never
\* meets an unassigned filter variable; and a run halted in load_data or in
\* the map tab never enters the analytics tab.
C11_FiltersAssignedBeforeUse ==
    /\ (pc = "done" /\ Len(df) > 0) =>
          FiltersAssigned /\ ~Showing("chart_error")
    /\ (pc = "done" /\ Len(df) = 0) =>
          /\ year_range = Unset
          /\ attack_types = Unset
          /\ financial_loss_range = Unset
          /\ Showing("no_data_charts")
          /\ ~Showing("chart_error")
    /\ pc \in {"halted_in_load", "halted_in_map", "crashed"} =>
          ~AnalyticsTabEntered
    /\ pc \in {"idle", "loaded", "map_done"} => ~AnalyticsTabEntered

\* A run on a non-empty table whose analytics tab filtered with the three
\* values the map tab assigned and drew its charts.
C11_Witness ==
    /\ pc = "done"
    /\ Len(df) > 0
    /\ FiltersAssigned
    /\ chartData # NotDrawn
    /\ chartData = Val(FilterFrame(df, year_range[1], attack_types[1],
                                   financial_loss_range[1]))

====
